---- MODULE Spec2Model ----
(***************************************************************************)
(* PPE detection dashboard: the upload -> asynchronous result correlation  *)
(* of the "Detect PPE (Upload)" page (pages/01_Detect_PPE_Upload.py) and   *)
(* of the "Violations" page (pages/03_Violations.py), the violations       *)
(* editor, utils/data.py, the registration of the "Employees" page         *)
(* (pages/02_Employees_Master_List.py) and the login of auth.py.           *)
(*                                                                         *)
(* Strings whose contents the code inspects (last_missing) are sequences   *)
(* of one-character strings.  Python's None and an absent dict key are the *)
(* value None.  A Python dict is a function whose DOMAIN is its key set.   *)
(***************************************************************************)
EXTENDS Integers, Sequences, FiniteSets, TLC

VARIABLES
    now,               \* wall clock, whole seconds (time.time())
    violation_master,  \* DynamoDB table violation_master: EmployeeID -> row or None
    employee_master,   \* DynamoDB table employee_master: EmployeeID -> item or None
    writes,            \* number of rows the detection pipeline has written
    pc,                \* position of the page's script run
    image_key,         \* S3 key of this upload (key / s3_key), None before the upload
    deadline,          \* poll_violation_result: deadline
    timer,             \* clock value at which the pending request was sent / the sleep ends
    resp,              \* response in flight from the store: None, or [Items |-> seq]
    items,             \* poll_violation_result: items of the last scan response
    vio,               \* build_display_result: vio (None or a row) / Violations page: found
    profile,           \* build_display_result: profile (a dict) / Violations page: emp
    result,            \* the page's result dict, None while there is none
    error,             \* exception that ended the handler, None when there is none
    shown,             \* what the run rendered in the result area
    hinted_emp,        \* Violations page: employee id inferred from the file name
    start_iso,         \* Violations page: start_iso
    attempt,           \* Violations page: iterations of "for _ in range(25)" begun
    stop_requested,    \* the browser session asked Streamlit to stop this script run
    peer,              \* the script run of another user's session (Detect page)
    session_state,     \* st.session_state of this browser session: a dict
    query_params,      \* st.query_params of the current script run: a dict
    cache,             \* st.cache_data entry of the directory scan, None when empty or expired
    local,             \* local variables of the handler that is running, None when idle
    runs,              \* Employees page: the registration of each browser session
    calls,             \* the writes the handlers have sent to the store, in order
    s3_objects         \* keys of the objects in the bucket ppe-detection-input

vars == << now, violation_master, employee_master, writes, pc, image_key, deadline,
           timer, resp, items, vio, profile, result, error, shown, hinted_emp,
           start_iso, attempt, stop_requested, peer, session_state, query_params,
           cache, local, runs, calls, s3_objects >>

\* Python's None for dict-valued places; NoText for an absent text.
None == [t |-> "None"]
NoText == "none"

(***************************************************************************)
(* Bounds of the model.                                                    *)
(***************************************************************************)
MaxLen == 3          \* longest last_missing string drawn character by character
MaxWrites == 1       \* rows the detection pipeline writes during one run
MaxLatency == 1      \* longest round trip of one DynamoDB call, seconds
StaleViolations == 3 \* cumulative count of a row present before the upload

(***************************************************************************)
(* Program constants.                                                      *)
(***************************************************************************)
POLL_SECONDS == 25
POLL_INTERVAL == 2
UPLOAD_PREFIX == "uploads/"
Dash == "-"          \* the placeholder the pages print for a missing field

Employees == {"emp01", "emp02"}

\* An S3 object key: the prefix and the base name after the last "/".
Key(base) == [dir |-> UPLOAD_PREFIX, base |-> base]
ThisKey == Key("123-abc.png")      \* unique_key(original_name) of this upload
OtherKey == Key("100-old.png")     \* key of another upload (earlier or concurrent)
ImageKeys == {ThisKey, OtherKey}

basename(k) == k.base

(***************************************************************************)
(* str.split(","), str.strip() and the list comprehension of line 165.     *)
(***************************************************************************)
Alphabet == {"a", ",", " "}

Strings(n) == UNION {[1..k -> Alphabet] : k \in 0..n}

RECURSIVE split(_)
split(s) ==
    IF \A i \in 1..Len(s) : s[i] # ","
    THEN << s >>
    ELSE LET i == CHOOSE j \in 1..Len(s) :
                      s[j] = "," /\ \A h \in 1..(j-1) : s[h] # ","
         IN  << SubSeq(s, 1, i-1) >> \o split(SubSeq(s, i+1, Len(s)))

RECURSIVE lstrip(_)
lstrip(s) == IF s # << >> /\ Head(s) = " " THEN lstrip(Tail(s)) ELSE s

RECURSIVE rstrip(_)
rstrip(s) ==
    IF s # << >> /\ s[Len(s)] = " " THEN rstrip(SubSeq(s, 1, Len(s)-1)) ELSE s

strip(s) == rstrip(lstrip(s))

NonBlank(x) == strip(x) # << >>

StripAll(xs) == [i \in 1..Len(xs) |-> strip(xs[i])]

\* Variant: the comprehension without its filter "if x.strip()".
ParseMissing_NoFilter(s) == StripAll(split(s))

\* Variant: only the first listed item is kept.
ParseMissing_FirstOnly(s) ==
    LET xs == StripAll(SelectSeq(split(s), NonBlank))
    IN  IF xs = << >> THEN xs ELSE << xs[1] >>

\* [x.strip() for x in last_missing.split(",") if x.strip()]
ParseMissing(s) == StripAll(SelectSeq(split(s), NonBlank))

(***************************************************************************)
(* Values of the attribute last_missing as the page receives them.         *)
(* t = "str": a string; "list": a DynamoDB list of n strings; "num": a     *)
(* number; None: the attribute is absent.                                  *)
(***************************************************************************)
Str(s) == [t |-> "str", s |-> s]
ListVal(n) == [t |-> "list", n |-> n]
NumVal(v) == [t |-> "num", v |-> v]

\* Python truthiness of the value (the left operand of "or").
Truthy(v) ==
    CASE v.t = "None"  -> FALSE
      [] v.t = "str"   -> v.s # << >>
      [] v.t = "list"  -> v.n > 0
      [] v.t = "num"   -> v.v # 0

\* vio.get("last_missing") or ""
OrEmpty(v) == IF Truthy(v) THEN v ELSE Str(<< >>)

\* Only a str has .split: anything else raises AttributeError.
HasSplit(v) == v.t = "str"

NoHelmetNoVest ==
    << "N","o"," ","H","e","l","m","e","t",","," ","N","o"," ","V","e","s","t" >>

\* What the pipeline finds missing on each employee in the page flows:
\* emp01 lacks two items, everyone else is fully equipped.
MissingOf(e) == IF e = "emp01" THEN Str(NoHelmetNoVest) ELSE Str(<< >>)

\* last_missing values of the composition check: every short string, the
\* absent attribute, lists and numbers.
MissingDomain ==
    {Str(s) : s \in Strings(MaxLen)} \cup {Str(NoHelmetNoVest), None}
        \cup {ListVal(n) : n \in 0..1} \cup {NumVal(n) : n \in 0..1}

(***************************************************************************)
(* Rows of violation_master and items of employee_master.                  *)
(***************************************************************************)
Row(e, k, m, u, v) ==
    [EmployeeID |-> e, last_image_key |-> k, last_missing |-> m,
     last_updated |-> u, violations |-> v]

Item(n, d, s) == [name |-> n, department |-> d, site |-> s]

\* Attribute values of a profile: a text, or "" (empty or absent alike to "or").
ProfileItems == {Item(n, d, s) : n \in {"Ann", ""}, d \in {"Ops", ""}, s \in {"Plant1", ""}}

\* x or y on texts
Or(x, y) == IF x = "" THEN y ELSE x

\* dict.get(key, default)
Get(d, k, default) == IF k \in DOMAIN d THEN d[k] ELSE default

\* A dict without key k.
Without(d, k) == [x \in (DOMAIN d) \ {k} |-> d[x]]

\* {}
EmptyDict == [x \in {} |-> None]

(***************************************************************************)
(* build_display_result: the two dicts it returns.                         *)
(***************************************************************************)
\* Variant: the placeholder claims compliance and a zero count.
PendingResult_Compliant(key, t) ==
    [employee_id |-> Dash, name |-> basename(key), department |-> Dash,
     site |-> Dash, shift |-> None, zone |-> None, timestamp |-> t,
     status |-> "Compliant", violations |-> << >>,
     ppe_detected |-> << >>, model_confidence |-> None, image_key |-> key,
     violation_count |-> 0]

\* lines 145-158: no row arrived in time
PendingResult(key, t) ==
    [employee_id |-> Dash, name |-> basename(key), department |-> Dash,
     site |-> Dash, shift |-> None, zone |-> None, timestamp |-> t,
     status |-> "Compliant or Pending", violations |-> << >>,
     ppe_detected |-> << >>, model_confidence |-> None, image_key |-> key]

\* line 164
LastMissing(v) == OrEmpty(Get(v, "last_missing", None))

\* line 175
StatusOf(violations) == IF violations # << >> THEN "Non-Compliant" ELSE "Compliant"

\* lines 160, 164-181: a row v was found, p is the profile dict
MatchedResult(v, p, key, t) ==
    LET employee_id == Get(v, "EmployeeID", Dash)
        violations  == ParseMissing(LastMissing(v).s)
    IN  [employee_id |-> employee_id,
         name |-> Or(Get(p, "name", ""), employee_id),
         department |-> Or(Get(p, "department", ""), Dash),
         site |-> Or(Get(p, "site", ""), Dash),
         shift |-> None, zone |-> None,
         timestamp |-> Get(v, "last_updated", t),
         status |-> StatusOf(violations),
         violations |-> violations,
         ppe_detected |-> << >>, model_confidence |-> None,
         image_key |-> key,
         violation_count |-> Get(v, "violations", 0)]

\* line 277: the metric "Total Violations (this image)"
total_violations(r) == Len(Get(r, "violations", << >>))

(***************************************************************************)
(* The DynamoDB calls.                                                     *)
(***************************************************************************)
\* How a boto3 call ends: it returns, or raises botocore's ClientError (the
\* service answered with an error: access denied, throttling, ...) or
\* EndpointConnectionError (no answer: the network is down).
CallOutcomes == {"ok", "ClientError", "EndpointConnectionError"}

Rows(tbl) == {tbl[e] : e \in {x \in DOMAIN tbl : tbl[x] # None}}

\* FilterExpression=Attr("last_image_key").eq(image_key)
MatchingRows(tbl, key) ==
    {r \in Rows(tbl) : "last_image_key" \in DOMAIN r /\ r.last_image_key = key}

\* The orders in which a scan may return the rows of S.
Orderings(S) ==
    {s \in [1..Cardinality(S) -> S] : \A i, j \in 1..Cardinality(S) : i # j => s[i] # s[j]}

\* table.get_item(Key={"EmployeeID": e}): the response dict
GetItem(tbl, e) ==
    IF e \in DOMAIN tbl /\ tbl[e] # None THEN [Item |-> tbl[e]] ELSE EmptyDict

(***************************************************************************)
(* State before the "Upload to S3" button is pressed.                      *)
(***************************************************************************)
\* violation_master before the upload: empty, or holding the row an earlier
\* upload of emp01 left behind.
StaleRow == Row("emp01", OtherKey, Str(<< "a" >>), 0, StaleViolations)

InitialTables ==
    { [e \in Employees |-> None],
      [e \in Employees |-> IF e = "emp01" THEN StaleRow ELSE None] }

\* employee_master of the page flows: emp01 has a profile, emp02 has none.
Directory == [e \in Employees |-> IF e = "emp01" THEN Item("Ann", "Ops", "") ELSE None]

\* Another session before its user has pressed the button.
Idle == [pc |-> "button", image_key |-> None, deadline |-> -1, timer |-> -1,
         vio |-> None, result |-> None]

\* The state of the Account, Employees and Violations-editor pages, and what it
\* is while none of them runs.
Pages == << session_state, query_params, cache, local, runs, calls, s3_objects >>

PagesIdle ==
    /\ session_state = EmptyDict
    /\ query_params = EmptyDict
    /\ cache = None
    /\ local = None
    /\ runs = None
    /\ calls = << >>
    /\ s3_objects = {}

Locals ==
    /\ image_key = None
    /\ deadline = -1
    /\ timer = -1
    /\ resp = None
    /\ items = << >>
    /\ vio = None
    /\ profile = None
    /\ result = None
    /\ error = NoText
    /\ shown = {}
    /\ hinted_emp = NoText
    /\ start_iso = -1
    /\ attempt = 0
    /\ stop_requested = FALSE
    /\ PagesIdle
    /\ peer = Idle

Init ==
    /\ now = 1
    /\ violation_master \in InitialTables
    /\ employee_master = Directory
    /\ writes = 0
    /\ pc = "button"
    /\ Locals

(***************************************************************************)
(* The environment: the clock and the detection pipeline.                  *)
(***************************************************************************)
\* Places where the script waits for an answer of DynamoDB.
InCall == {"scan_req", "scan_resp"}

\* Time passes only while the script waits: for at most MaxLatency in a call,
\* for exactly the interval in time.sleep.
Tick ==
    /\ \/ pc \in InCall /\ now - timer < MaxLatency
       \/ pc \in {"sleep", "v_sleep"} /\ now < timer
    /\ now' = now + 1
    /\ UNCHANGED << violation_master, employee_master, writes, pc, image_key,
                    deadline, timer, resp, items, vio, profile, result, error,
                    shown, hinted_emp, start_iso, attempt, stop_requested, peer, Pages >>

\* The pipeline writes the row of employee e for the upload k: it replaces the
\* row in place, counts one more violation and stamps it with the clock.
PipelineWrite(e, k) ==
    /\ writes < MaxWrites
    /\ pc \in InCall \cup {"sleep", "v_sleep"}
    /\ violation_master' =
         [violation_master EXCEPT ![e] =
            Row(e, k, MissingOf(e), now, Get(violation_master[e], "violations", 0) + 1)]
    /\ writes' = writes + 1
    /\ UNCHANGED << now, employee_master, pc, image_key, deadline, timer, resp,
                    items, vio, profile, result, error, shown, hinted_emp,
                    start_iso, attempt, stop_requested, peer, Pages >>

(***************************************************************************)
(* Detect PPE (Upload): the "Upload to S3" handler, lines 218-239.         *)
(***************************************************************************)
Frame ==
    << now, violation_master, employee_master, writes, hinted_emp, start_iso, attempt,
       stop_requested, peer, Pages >>

\* Variant: a failed put_object is reported and the poll is started all the same.
ClickUpload_PollAnyway ==
    /\ pc = "button"
    /\ \E creds \in BOOLEAN, put \in CallOutcomes :
         IF ~creds
         THEN /\ shown' = {"credentials_error"}
              /\ pc' = "render"
              /\ UNCHANGED << image_key, error >>
         ELSE IF put # "ok"
         THEN /\ error' = put
              /\ pc' = "poll_start"
              /\ UNCHANGED << image_key, shown >>
         ELSE /\ image_key' = ThisKey
              /\ shown' = {"uploaded"}
              /\ pc' = "poll_start"
              /\ UNCHANGED error
    /\ UNCHANGED << deadline, timer, resp, items, vio, profile, result >>
    /\ UNCHANGED Frame

\* lines 219-232
ClickUpload ==
    /\ pc = "button"
    /\ \E creds \in BOOLEAN, put \in CallOutcomes :
         IF ~creds
         THEN /\ shown' = {"credentials_error"}
              /\ pc' = "render"
              /\ UNCHANGED << image_key, error >>
         ELSE IF put # "ok"
         THEN /\ error' = put
              /\ pc' = "except"
              /\ UNCHANGED << image_key, shown >>
         ELSE /\ image_key' = ThisKey
              /\ shown' = {"uploaded"}
              /\ pc' = "poll_start"
              /\ UNCHANGED error
    /\ UNCHANGED << deadline, timer, resp, items, vio, profile, result >>
    /\ UNCHANGED Frame

\* line 111
StartPolling ==
    /\ pc = "poll_start"
    /\ deadline' = now + POLL_SECONDS
    /\ pc' = "poll_check"
    /\ UNCHANGED << image_key, timer, resp, items, vio, profile, result, error, shown >>
    /\ UNCHANGED Frame

\* Variant: the loop gives up while more than one interval is still left.
CheckDeadline_Early ==
    /\ pc = "poll_check"
    /\ IF now + POLL_INTERVAL + 1 < deadline
       THEN /\ pc' = "scan_req"
            /\ timer' = now
            /\ UNCHANGED vio
       ELSE /\ pc' = "build"
            /\ vio' = None
            /\ UNCHANGED timer
    /\ UNCHANGED << image_key, deadline, resp, items, profile, result, error, shown >>
    /\ UNCHANGED Frame

\* lines 112-118 and 123: the loop test; the scan request leaves, or None is returned
CheckDeadline ==
    /\ pc = "poll_check"
    /\ IF now < deadline
       THEN /\ pc' = "scan_req"
            /\ timer' = now
            /\ UNCHANGED vio
       ELSE /\ pc' = "build"
            /\ vio' = None
            /\ UNCHANGED timer
    /\ UNCHANGED << image_key, deadline, resp, items, profile, result, error, shown >>
    /\ UNCHANGED Frame

\* DynamoDB evaluates the scan on the table as it is now
ScanServe ==
    /\ pc = "scan_req"
    /\ \E out \in CallOutcomes :
         IF out = "ok"
         THEN \E s \in Orderings(MatchingRows(violation_master, image_key)) :
                  resp' = [Items |-> s]
         ELSE resp' = [Error |-> out]
    /\ pc' = "scan_resp"
    /\ UNCHANGED << image_key, deadline, timer, items, vio, profile, result, error, shown >>
    /\ UNCHANGED Frame

\* Variant: the sleep between two scans lasts twice POLL_INTERVAL.
ScanReturn_LongSleep ==
    /\ pc = "scan_resp"
    /\ IF "Error" \in DOMAIN resp
       THEN /\ error' = resp.Error
            /\ pc' = "except"
            /\ UNCHANGED << items, vio, timer >>
       ELSE /\ items' = Get(resp, "Items", << >>)
            /\ IF items' # << >>
               THEN /\ vio' = items'[1]
                    /\ pc' = "build"
                    /\ UNCHANGED timer
               ELSE /\ pc' = "sleep"
                    /\ timer' = now + 2 * POLL_INTERVAL
                    /\ UNCHANGED vio
            /\ UNCHANGED error
    /\ resp' = None
    /\ UNCHANGED << image_key, deadline, profile, result, shown >>
    /\ UNCHANGED Frame

\* lines 119-122: the response arrives
ScanReturn ==
    /\ pc = "scan_resp"
    /\ IF "Error" \in DOMAIN resp
       THEN /\ error' = resp.Error
            /\ pc' = "except"
            /\ UNCHANGED << items, vio, timer >>
       ELSE /\ items' = Get(resp, "Items", << >>)
            /\ IF items' # << >>
               THEN /\ vio' = items'[1]
                    /\ pc' = "build"
                    /\ UNCHANGED timer
               ELSE /\ pc' = "sleep"
                    /\ timer' = now + POLL_INTERVAL
                    /\ UNCHANGED vio
            /\ UNCHANGED error
    /\ resp' = None
    /\ UNCHANGED << image_key, deadline, profile, result, shown >>
    /\ UNCHANGED Frame

\* line 122: time.sleep(POLL_INTERVAL) is over
Wake ==
    /\ pc = "sleep"
    /\ now >= timer
    /\ pc' = "poll_check"
    /\ UNCHANGED << image_key, deadline, timer, resp, items, vio, profile, result, error, shown >>
    /\ UNCHANGED Frame

\* Variant: giving up at the deadline raises instead of returning the placeholder.
BuildPending_Raise ==
    /\ pc = "build"
    /\ IF vio = None
       THEN /\ error' = "TimeoutError"
            /\ pc' = "except"
       ELSE /\ pc' = "profile_req"
            /\ UNCHANGED error
    /\ UNCHANGED << image_key, deadline, timer, resp, items, vio, profile, result, shown >>
    /\ UNCHANGED Frame

\* lines 140-158
BuildPending ==
    /\ pc = "build"
    /\ IF vio = None
       THEN /\ result' = PendingResult(image_key, now)
            /\ pc' = "render"
       ELSE /\ pc' = "profile_req"
            /\ UNCHANGED result
    /\ UNCHANGED << image_key, deadline, timer, resp, items, vio, profile, error, shown >>
    /\ UNCHANGED Frame

\* employee_master answers get_item for the employee of the row found
\* (Detect page line 131, Violations page line 133)
ProfileServe ==
    /\ pc \in {"profile_req", "v_profile_req"}
    /\ \E out \in CallOutcomes :
         resp' = IF out = "ok"
                 THEN GetItem(employee_master, Get(vio, "EmployeeID", Dash))
                 ELSE [Error |-> out]
    /\ pc' = IF pc = "profile_req" THEN "profile_resp" ELSE "v_profile_resp"
    /\ UNCHANGED << image_key, deadline, timer, items, vio, profile, result, error, shown >>
    /\ UNCHANGED Frame

\* Variant: resp["Item"] instead of resp.get("Item", {}): KeyError without a profile.
get_employee_profile_KeyError ==
    /\ pc = "profile_resp"
    /\ IF "Item" \in DOMAIN resp
       THEN /\ profile' = resp.Item
            /\ pc' = "compose"
            /\ UNCHANGED error
       ELSE /\ error' = Get(resp, "Error", "KeyError")
            /\ pc' = "except"
            /\ UNCHANGED profile
    /\ resp' = None
    /\ UNCHANGED << image_key, deadline, timer, items, vio, result, shown >>
    /\ UNCHANGED Frame

\* Variant: a lookup that finds no profile stores an empty one (get-or-create).
get_employee_profile_Create ==
    /\ pc = "profile_resp"
    /\ IF "Error" \in DOMAIN resp
       THEN /\ error' = resp.Error
            /\ pc' = "except"
            /\ UNCHANGED << profile, employee_master >>
       ELSE /\ profile' = Get(resp, "Item", EmptyDict)
            /\ employee_master' =
                 IF "Item" \in DOMAIN resp THEN employee_master
                 ELSE [employee_master EXCEPT ![vio.EmployeeID] = Item("", "", "")]
            /\ pc' = "compose"
            /\ UNCHANGED error
    /\ resp' = None
    /\ UNCHANGED << image_key, deadline, timer, items, vio, result, shown >>
    /\ UNCHANGED << now, violation_master, writes, hinted_emp, start_iso, attempt,
                    stop_requested, peer, Pages >>

\* lines 125-132 and 160-161: get_employee_profile returns or raises
get_employee_profile ==
    /\ pc = "profile_resp"
    /\ IF "Error" \in DOMAIN resp
       THEN /\ error' = resp.Error
            /\ pc' = "except"
            /\ UNCHANGED profile
       ELSE /\ profile' = Get(resp, "Item", EmptyDict)
            /\ pc' = "compose"
            /\ UNCHANGED error
    /\ resp' = None
    /\ UNCHANGED << image_key, deadline, timer, items, vio, result, shown >>
    /\ UNCHANGED Frame

\* lines 163-181
Compose ==
    /\ pc = "compose"
    /\ IF HasSplit(LastMissing(vio))
       THEN /\ result' = MatchedResult(vio, profile, image_key, now)
            /\ pc' = "render"
            /\ UNCHANGED error
       ELSE /\ error' = "AttributeError"
            /\ pc' = "except"
            /\ UNCHANGED result
    /\ UNCHANGED << image_key, deadline, timer, resp, items, vio, profile, shown >>
    /\ UNCHANGED Frame

\* lines 238-239: except Exception as e: st.error("Upload failed: ...")
Except ==
    /\ pc = "except"
    /\ shown' = shown \cup {"upload_failed"}
    /\ pc' = "render"
    /\ UNCHANGED << image_key, deadline, timer, resp, items, vio, profile, result, error >>
    /\ UNCHANGED Frame

\* lines 247-315: the right panel
Render ==
    /\ pc = "render"
    /\ shown' = shown \cup {IF result = None THEN "caption" ELSE "card"}
    /\ pc' = "done"
    /\ UNCHANGED << image_key, deadline, timer, resp, items, vio, profile, result, error >>
    /\ UNCHANGED Frame

build_display_result == BuildPending \/ ProfileServe \/ get_employee_profile \/ Compose

poll_violation_result == StartPolling \/ CheckDeadline \/ ScanServe \/ ScanReturn \/ Wake

Pipeline == \E e \in Employees, k \in ImageKeys : PipelineWrite(e, k)

Next ==
    \/ ClickUpload
    \/ poll_violation_result
    \/ build_display_result
    \/ Except
    \/ Render
    \/ Tick
    \/ Pipeline

Spec == Init /\ [][Next]_vars

(***************************************************************************)
(* build_display_result on its own: the poll has just returned the row vio *)
(* and every row and profile within the bounds is tried.                   *)
(***************************************************************************)
ComposeRows ==
    LET full == {Row("emp01", ThisKey, m, 1, v) :
                    m \in MissingDomain \ {None}, v \in {1, StaleViolations + 1}}
    IN  full \cup {Without(Row("emp01", ThisKey, None, 1, StaleViolations + 1), "last_missing"),
                   Without(Row("emp01", ThisKey, Str(<< "a" >>), 1, 0), "violations")}

Directories ==
    {[e \in Employees |-> IF e = "emp01" THEN p ELSE None] : p \in ProfileItems \cup {None}}

InitCompose ==
    /\ now = 1
    /\ vio \in ComposeRows
    /\ violation_master = [e \in Employees |-> IF e = "emp01" THEN vio ELSE None]
    /\ employee_master \in Directories
    /\ writes = MaxWrites
    /\ pc = "build"
    /\ image_key = ThisKey
    /\ deadline = now + POLL_SECONDS
    /\ timer = now
    /\ resp = None
    /\ items = << vio >>
    /\ profile = None
    /\ result = None
    /\ error = NoText
    /\ shown = {"uploaded"}
    /\ hinted_emp = NoText
    /\ start_iso = -1
    /\ attempt = 0
    /\ stop_requested = FALSE
    /\ PagesIdle
    /\ peer = Idle

NextCompose == build_display_result \/ Except \/ Render

SpecCompose == InitCompose /\ [][NextCompose]_vars

(***************************************************************************)
(* poll_violation_result against a table the pipeline no longer changes:   *)
(* every table within the bounds is tried, also one in which two rows      *)
(* carry the key of this upload.                                           *)
(***************************************************************************)
ScanTables ==
    [Employees -> {None} \cup
        {Row(e, k, MissingOf(e), u, 1) : e \in Employees, k \in ImageKeys, u \in 0..1}]

InitScan ==
    /\ now = 1
    /\ violation_master \in {t \in ScanTables :
                                \A e \in Employees : t[e] # None => t[e].EmployeeID = e}
    /\ employee_master = Directory
    /\ writes = MaxWrites
    /\ pc = "poll_start"
    /\ image_key = ThisKey
    /\ deadline = -1
    /\ timer = -1
    /\ resp = None
    /\ items = << >>
    /\ vio = None
    /\ profile = None
    /\ result = None
    /\ error = NoText
    /\ shown = {"uploaded"}
    /\ hinted_emp = NoText
    /\ start_iso = -1
    /\ attempt = 0
    /\ stop_requested = FALSE
    /\ PagesIdle
    /\ peer = Idle

NextScan == poll_violation_result \/ build_display_result \/ Except \/ Render \/ Tick

SpecScan == InitScan /\ [][NextScan]_vars

\* The script thread keeps running and the clock keeps ticking: whatever step
\* is possible is eventually taken.
SpecScanFair == SpecScan /\ WF_vars(NextScan)

(***************************************************************************)
(* poll_violation_result against a table too large for one result page: a  *)
(* scan call reads one page of the table (1 MB of rows), applies the       *)
(* filter to it and answers with the matches of that page and, when rows   *)
(* are left, with LastEvaluatedKey.  (In the other specifications the      *)
(* whole table lies within the first page.)                                *)
(***************************************************************************)
PageRows == 1        \* rows of violation_master in one result page

Min(a, b) == IF a < b THEN a ELSE b

\* The matches of the first page of the rows in the order s.
FirstPage(s, key) ==
    LET page == SubSeq(s, 1, Min(PageRows, Len(s)))
        keep(r) == "last_image_key" \in DOMAIN r /\ r.last_image_key = key
    IN  IF Len(s) > PageRows
        THEN [Items |-> SelectSeq(page, keep), LastEvaluatedKey |-> s[PageRows].EmployeeID]
        ELSE [Items |-> SelectSeq(page, keep)]

\* lines 114-118: DynamoDB answers the one scan call with the first page
ScanServePaged ==
    /\ pc = "scan_req"
    /\ \E out \in CallOutcomes :
         IF out = "ok"
         THEN \E s \in Orderings(Rows(violation_master)) : resp' = FirstPage(s, image_key)
         ELSE resp' = [Error |-> out]
    /\ pc' = "scan_resp"
    /\ UNCHANGED << image_key, deadline, timer, items, vio, profile, result, error, shown >>
    /\ UNCHANGED Frame

NextPaged ==
    \/ StartPolling
    \/ CheckDeadline
    \/ ScanServePaged
    \/ ScanReturn
    \/ Wake
    \/ build_display_result
    \/ Except
    \/ Render
    \/ Tick

SpecPaged == InitScan /\ [][NextPaged]_vars

(***************************************************************************)
(* The user navigates away while poll_violation_result sleeps.  Streamlit  *)
(* notes the request for the script thread, which looks at it when the     *)
(* script next calls a Streamlit command; the loop of lines 112-122 calls  *)
(* none and reads no flag.                                                 *)
(***************************************************************************)
NavigateAway ==
    /\ pc = "sleep"
    /\ ~stop_requested
    /\ stop_requested' = TRUE
    /\ UNCHANGED << now, violation_master, employee_master, writes, pc, image_key,
                    deadline, timer, resp, items, vio, profile, result, error,
                    shown, hinted_emp, start_iso, attempt, peer, Pages >>

NextCancel == NextScan \/ NavigateAway

SpecCancel == InitScan /\ [][NextCancel]_vars

(***************************************************************************)
(* Two sessions on the Detect page.  Streamlit runs the page script once   *)
(* per session, each run in its own thread with its own variables; the     *)
(* other user's run is the record peer.  It executes the same handler for  *)
(* the key OtherKey; its store calls are answered at once.                 *)
(***************************************************************************)
Mine == << pc, image_key, deadline, timer, resp, items, vio, profile, result, error, shown >>

Shared == << violation_master, employee_master, writes >>

PeerFrame ==
    << now, violation_master, employee_master, writes, hinted_emp, start_iso, attempt,
       stop_requested, Pages >>

\* lines 218-232 in the other session
PeerClick ==
    /\ peer.pc = "button"
    /\ \E put \in CallOutcomes :
         peer' = IF put = "ok"
                 THEN [peer EXCEPT !.pc = "poll_start", !.image_key = OtherKey]
                 ELSE [peer EXCEPT !.pc = "done"]
    /\ UNCHANGED Mine
    /\ UNCHANGED PeerFrame

\* line 111 in the other session
PeerStartPolling ==
    /\ peer.pc = "poll_start"
    /\ peer' = [peer EXCEPT !.pc = "poll_check", !.deadline = now + POLL_SECONDS]
    /\ UNCHANGED Mine
    /\ UNCHANGED PeerFrame

\* lines 112-123 in the other session: the loop test and one scan
PeerPoll ==
    /\ peer.pc = "poll_check"
    /\ IF now < peer.deadline
       THEN \E out \in CallOutcomes :
              IF out # "ok"
              THEN peer' = [peer EXCEPT !.pc = "done"]
              ELSE \E s \in Orderings(MatchingRows(violation_master, peer.image_key)) :
                     peer' = IF s # << >>
                             THEN [peer EXCEPT !.pc = "build", !.vio = s[1]]
                             ELSE [peer EXCEPT !.pc = "sleep", !.timer = now + POLL_INTERVAL]
       ELSE peer' = [peer EXCEPT !.pc = "build", !.vio = None]
    /\ UNCHANGED Mine
    /\ UNCHANGED PeerFrame

\* line 122 in the other session: the sleep is over
PeerWake ==
    /\ peer.pc = "sleep"
    /\ now >= peer.timer
    /\ peer' = [peer EXCEPT !.pc = "poll_check"]
    /\ UNCHANGED Mine
    /\ UNCHANGED PeerFrame

\* The profile dict get_employee_profile returns for the row v.
ProfileOf(v) == Get(GetItem(employee_master, Get(v, "EmployeeID", Dash)), "Item", EmptyDict)

\* Variant: the result dict is one object of the server process, written by
\* whichever session finishes.
PeerBuild_SharedResult ==
    /\ peer.pc = "build"
    /\ result' = IF peer.vio = None
                 THEN PendingResult(peer.image_key, now)
                 ELSE MatchedResult(peer.vio, ProfileOf(peer.vio), peer.image_key, now)
    /\ peer' = [peer EXCEPT !.pc = "done", !.result = result']
    /\ UNCHANGED << pc, image_key, deadline, timer, resp, items, vio, profile, error, shown >>
    /\ UNCHANGED PeerFrame

\* lines 134-181 in the other session: build_display_result after the poll
PeerBuild ==
    /\ peer.pc = "build"
    /\ IF peer.vio = None
       THEN peer' = [peer EXCEPT !.pc = "done",
                                 !.result = PendingResult(peer.image_key, now)]
       ELSE \E out \in CallOutcomes :
              peer' = IF out = "ok" /\ HasSplit(LastMissing(peer.vio))
                      THEN [peer EXCEPT !.pc = "done",
                                        !.result = MatchedResult(peer.vio, ProfileOf(peer.vio),
                                                                 peer.image_key, now)]
                      ELSE [peer EXCEPT !.pc = "done"]
    /\ UNCHANGED Mine
    /\ UNCHANGED PeerFrame

PeerRun == PeerClick \/ PeerStartPolling \/ PeerPoll \/ PeerWake \/ PeerBuild

\* Time passes while every running script waits and at least one of them does.
TickTwo ==
    LET waiting == \/ pc \in InCall /\ now - timer < MaxLatency
                   \/ pc = "sleep" /\ now < timer
        peerWaiting == peer.pc = "sleep" /\ now < peer.timer
    IN  /\ waiting \/ peerWaiting
        /\ waiting \/ pc = "done"
        /\ peerWaiting \/ peer.pc \in {"button", "done"}
        /\ now' = now + 1
        /\ UNCHANGED << violation_master, employee_master, writes, pc, image_key,
                        deadline, timer, resp, items, vio, profile, result, error,
                        shown, hinted_emp, start_iso, attempt, stop_requested, peer, Pages >>

NextTwo ==
    \/ poll_violation_result
    \/ build_display_result
    \/ Except
    \/ Render
    \/ PeerRun
    \/ TickTwo

SpecTwo == InitScan /\ [][NextTwo]_vars

(***************************************************************************)
(* Violations page: "Upload to S3 & Analyze", lines 189-254.               *)
(***************************************************************************)
VIOL_POLLS == 25          \* for _ in range(25)
VIOL_SLEEP == 1           \* time.sleep(1.0)

VFrame == << violation_master, employee_master, writes, deadline, items, stop_requested, peer, Pages >>

\* The key _put_to_s3 builds for this upload.
S3Key == Key("123-abc-photo.jpg")

\* An exception nothing catches ends the script run: Streamlit prints it.
Uncaught(e) ==
    /\ error' = e
    /\ shown' = {"exception"}
    /\ pc' = "done"

\* _scan_recent_violations, lines 154-172: the rows not older than since that
\* carry the expected key; the most recent wins, the first of equals stays.
RECURSIVE BestOf(_, _, _, _)
BestOf(rows, since, expect, best) ==
    IF rows = << >> THEN best
    ELSE LET it == Head(rows)
             take == /\ it.last_updated >= since
                     /\ ~(expect # None /\ Get(it, "last_image_key", None) # expect)
                     /\ (best = None \/ it.last_updated > best.last_updated)
         IN  BestOf(Tail(rows), since, expect, IF take THEN it ELSE best)

\* lines 204-205: the test that the row of the hinted employee is the new one
Accepts(found, key, since) ==
    /\ found # None
    /\ \/ Get(found, "last_image_key", None) = key
       \/ Get(found, "last_updated", -1) >= since

\* lines 189-197
VClickUpload ==
    /\ pc = "v_button"
    /\ start_iso' = now
    /\ \E put \in CallOutcomes, h \in Employees \cup {NoText} :
         IF put # "ok"
         THEN /\ Uncaught(put)
              /\ UNCHANGED << image_key, hinted_emp >>
         ELSE /\ image_key' = S3Key
              /\ hinted_emp' = h
              /\ shown' = {"uploaded"}
              /\ pc' = "v_loop"
              /\ UNCHANGED error
    /\ vio' = None
    /\ UNCHANGED << now, timer, resp, profile, result, attempt >>
    /\ UNCHANGED VFrame

\* lines 198-199: the next iteration begins with the sleep, or the loop is over
VLoop ==
    /\ pc = "v_loop"
    /\ IF attempt < VIOL_POLLS
       THEN /\ attempt' = attempt + 1
            /\ timer' = now + VIOL_SLEEP
            /\ pc' = "v_sleep"
       ELSE /\ pc' = "v_after"
            /\ UNCHANGED << attempt, timer >>
    /\ UNCHANGED << now, image_key, resp, vio, profile, result, error, shown,
                    hinted_emp, start_iso >>
    /\ UNCHANGED VFrame

\* lines 201-202 and 208: the sleep is over, the request leaves
VSend ==
    /\ pc = "v_sleep"
    /\ now >= timer
    /\ timer' = now
    /\ pc' = "scan_req"
    /\ UNCHANGED << now, image_key, resp, vio, profile, result, error, shown,
                    hinted_emp, start_iso, attempt >>
    /\ UNCHANGED VFrame

\* DynamoDB answers get_item (hinted) or the unfiltered scan (not hinted)
VServe ==
    /\ pc = "scan_req"
    /\ \E out \in CallOutcomes :
         IF out # "ok"
         THEN resp' = [Error |-> out]
         ELSE IF hinted_emp # NoText
         THEN resp' = GetItem(violation_master, hinted_emp)
         ELSE \E s \in Orderings(Rows(violation_master)) : resp' = [Items |-> s]
    /\ pc' = "scan_resp"
    /\ UNCHANGED << now, timer, image_key, vio, profile, result, error, shown,
                    hinted_emp, start_iso, attempt >>
    /\ UNCHANGED VFrame

\* _get_violation (138-143) / _scan_recent_violations (145-174) return, and
\* lines 204-210 decide whether the loop breaks
VReturn ==
    /\ pc = "scan_resp"
    /\ IF "Error" \in DOMAIN resp /\ resp.Error # "ClientError"
       THEN /\ Uncaught(resp.Error)
            /\ UNCHANGED vio
       ELSE /\ vio' = IF "Error" \in DOMAIN resp THEN None
                      ELSE IF hinted_emp # NoText THEN Get(resp, "Item", None)
                      ELSE BestOf(Get(resp, "Items", << >>), start_iso, image_key, None)
            /\ pc' = IF hinted_emp # NoText
                     THEN IF Accepts(vio', image_key, start_iso) THEN "v_after" ELSE "v_loop"
                     ELSE IF vio' # None THEN "v_after" ELSE "v_loop"
            /\ UNCHANGED << error, shown >>
    /\ resp' = None
    /\ UNCHANGED << now, timer, image_key, profile, result, hinted_emp, start_iso, attempt >>
    /\ UNCHANGED VFrame

\* lines 213-219: the warning, or the profile of the row's employee is asked for
VAfter ==
    /\ pc = "v_after"
    /\ IF vio = None
       THEN /\ shown' = shown \cup {"warning"}
            /\ pc' = "done"
       ELSE /\ pc' = "v_profile_req"
            /\ UNCHANGED shown
    /\ UNCHANGED << now, timer, image_key, resp, vio, profile, result, error,
                    hinted_emp, start_iso, attempt >>
    /\ UNCHANGED VFrame

\* Variant: except Exception instead of except ClientError.
_get_employee_CatchAll ==
    /\ pc = "v_profile_resp"
    /\ profile' = Get(resp, "Item", EmptyDict)
    /\ pc' = "v_card"
    /\ resp' = None
    /\ UNCHANGED << now, timer, image_key, vio, result, error, shown,
                    hinted_emp, start_iso, attempt >>
    /\ UNCHANGED VFrame

\* lines 131-136 and 220: emp = _get_employee(emp_id) or {}
_get_employee ==
    /\ pc = "v_profile_resp"
    /\ IF "Error" \in DOMAIN resp /\ resp.Error # "ClientError"
       THEN /\ Uncaught(resp.Error)
            /\ UNCHANGED profile
       ELSE /\ profile' = Get(resp, "Item", EmptyDict)
            /\ pc' = "v_card"
            /\ UNCHANGED << error, shown >>
    /\ resp' = None
    /\ UNCHANGED << now, timer, image_key, vio, result, hinted_emp, start_iso, attempt >>
    /\ UNCHANGED VFrame

\* lines 221-254: the fields of the card
VCardFields(found, emp) ==
    [emp_id |-> Get(found, "EmployeeID", Dash),
     photo_key |-> Get(found, "last_image_key", None),
     violations |-> Get(found, "violations", 0),
     last_missing |-> Get(found, "last_missing", Str(<< Dash >>)),
     last_updated |-> Get(found, "last_updated", -1),
     name |-> Or(Get(emp, "name", ""), Dash),
     dept |-> Or(Get(emp, "department", ""), Dash),
     site |-> Or(Get(emp, "site", ""), Dash),
     job |-> Or(Get(emp, "job_title", ""), Dash),
     email |-> Or(Get(emp, "email", ""), Dash),
     status |-> Or(Get(emp, "status", ""), Dash)]

VCard ==
    /\ pc = "v_card"
    /\ result' = VCardFields(vio, profile)
    /\ shown' = shown \cup {"card"}
    /\ pc' = "done"
    /\ UNCHANGED << now, timer, image_key, resp, vio, profile, error, hinted_emp,
                    start_iso, attempt >>
    /\ UNCHANGED VFrame

InitViol ==
    /\ now = 1
    /\ violation_master \in InitialTables
    /\ employee_master = Directory
    /\ writes = 0
    /\ pc = "v_button"
    /\ Locals

NextViol ==
    \/ VClickUpload
    \/ VLoop
    \/ VSend
    \/ VServe
    \/ VReturn
    \/ VAfter
    \/ ProfileServe
    \/ _get_employee
    \/ VCard
    \/ Tick
    \/ Pipeline

SpecViol == InitViol /\ [][NextViol]_vars

(***************************************************************************)
(* The profile lookup of both pages on its own: a row has just been found  *)
(* (build_display_result after the poll, the Violations page after its     *)
(* loop) and every row and profile within the bounds is tried.             *)
(***************************************************************************)
CardRows == {[r EXCEPT !.last_image_key = S3Key] : r \in ComposeRows}

InitCard ==
    /\ now = 2
    /\ vio \in CardRows
    /\ violation_master = [e \in Employees |-> IF e = "emp01" THEN vio ELSE None]
    /\ employee_master \in Directories
    /\ writes = MaxWrites
    /\ pc = "v_after"
    /\ image_key = S3Key
    /\ deadline = -1
    /\ timer = 2
    /\ resp = None
    /\ items = << >>
    /\ profile = None
    /\ result = None
    /\ error = NoText
    /\ shown = {"uploaded"}
    /\ hinted_emp \in {NoText, "emp01"}
    /\ start_iso = 1
    /\ attempt = 1
    /\ stop_requested = FALSE
    /\ PagesIdle
    /\ peer = Idle

InitProfile == InitCompose \/ InitCard

NextProfile == NextCompose \/ VAfter \/ _get_employee \/ VCard

SpecProfile == InitProfile /\ [][NextProfile]_vars

(***************************************************************************)
(* utils/data.py: update_employee_violations and upsert_employee.          *)
(***************************************************************************)
MaxViolations == 2   \* largest violations value passed to the two functions

\* An item of employee_master as the master list sees it.
Profile(e, n, p) == [EmployeeID |-> e, name |-> n, department |-> "Ops", photo_key |-> p]

WithViolations(item, v) == [a \in DOMAIN item \cup {"violations"} |->
                               IF a = "violations" THEN v ELSE item[a]]

\* Variant: put_item with the key and the count, replacing the item.
update_item_Put(tbl, e, v) ==
    [tbl EXCEPT ![e] = [EmployeeID |-> e, violations |-> v]]

\* tbl.update_item(Key={"EmployeeID": e}, UpdateExpression="SET #v = :v", ...):
\* sets the attribute on the item, creating the item when there is none.
update_item(tbl, e, v) ==
    [tbl EXCEPT ![e] = IF tbl[e] = None
                       THEN [EmployeeID |-> e, violations |-> v]
                       ELSE WithViolations(tbl[e], v)]

DataUnchanged ==
    << now, violation_master, writes, image_key, deadline, timer, items, vio, profile,
       result, shown, hinted_emp, start_iso, attempt, stop_requested, peer, Pages >>

\* lines 82-93: the request leaves
update_employee_violations ==
    /\ pc = "data_idle"
    /\ \E e \in Employees, v \in 0..MaxViolations :
         resp' = [Op |-> "update_employee_violations", Key |-> e, Value |-> v]
    /\ pc' = "update_req"
    /\ error' = NoText
    /\ UNCHANGED employee_master
    /\ UNCHANGED DataUnchanged

\* lines 96-108: the request leaves
upsert_employee ==
    /\ pc = "data_idle"
    /\ \E e \in Employees, v \in 0..MaxViolations :
         resp' = [Op |-> "upsert_employee", Key |-> e, Value |-> v]
    /\ pc' = "update_req"
    /\ error' = NoText
    /\ UNCHANGED employee_master
    /\ UNCHANGED DataUnchanged

\* DynamoDB applies the update, or the call raises (nothing catches it here)
UpdateServe ==
    /\ pc = "update_req"
    /\ \E out \in CallOutcomes :
         IF out = "ok"
         THEN /\ employee_master' = update_item(employee_master, resp.Key, resp.Value)
              /\ UNCHANGED error
         ELSE /\ error' = out
              /\ UNCHANGED employee_master
    /\ pc' = "data_idle"
    /\ resp' = None
    /\ UNCHANGED DataUnchanged

DataTables ==
    {[e \in Employees |-> IF e = "emp01" THEN i ELSE j] :
        i \in {Profile("emp01", "Ann", "photos/emp01.jpg"),
               WithViolations(Profile("emp01", "Ann", "photos/emp01.jpg"), 1)},
        j \in {None, Profile("emp02", "", "photos/emp02.jpg")}}

InitData ==
    /\ now = 1
    /\ violation_master = [e \in Employees |-> None]
    /\ employee_master \in DataTables
    /\ writes = MaxWrites
    /\ pc = "data_idle"
    /\ Locals

NextData == update_employee_violations \/ upsert_employee \/ UpdateServe

SpecData == InitData /\ [][NextData]_vars

(***************************************************************************)
(* Properties.                                                             *)
(***************************************************************************)
\* The handler of the Detect page has returned from build_display_result.
Returned == pc \in {"render", "done"} /\ image_key # None /\ error = NoText

IsPending(r) ==
    /\ r # None
    /\ r.status = "Compliant or Pending"
    /\ r.employee_id = Dash
    /\ r.violations = << >>
    /\ "violation_count" \notin DOMAIN r

\* C1: when no scan issued before the deadline returned a row whose
\* last_image_key is the uploaded key, build_display_result returns the
\* placeholder: status "Compliant or Pending", the placeholder employee id, an
\* empty violations list, no violation_count, and image_key as passed in.
C1_PendingWhenNoRowSeen ==
    (Returned /\ items = << >>) =>
        /\ IsPending(result)
        /\ result.image_key = image_key
        /\ now >= deadline

\* C1 witness: the deadline passed with only another upload's row in the table.
C1_Witness ==
    /\ pc = "done"
    /\ IsPending(result)
    /\ result.image_key = ThisKey
    /\ violation_master["emp01"] # None
    /\ violation_master["emp01"].last_image_key = OtherKey

\* The entries of a comma-separated text that are not blank, counted on the
\* text itself: the positions where such an entry begins.
EntryStarts(s) ==
    {i \in 1..Len(s) :
        /\ s[i] \notin {",", " "}
        /\ \A j \in 1..(i-1) : (\A h \in j..(i-1) : s[h] # ",") => s[j] = " "}

ListedItems(row) ==
    IF "last_missing" \in DOMAIN row /\ row.last_missing.t = "str"
    THEN Cardinality(EntryStarts(row.last_missing.s))
    ELSE 0

\* r is the matched result of row: status, per-image count, cumulative count.
IsMatchedFor(r, row) ==
    /\ r # None
    /\ "violation_count" \in DOMAIN r
    /\ r.employee_id = row.EmployeeID
    /\ r.status = (IF ListedItems(row) > 0 THEN "Non-Compliant" ELSE "Compliant")
    /\ total_violations(r) = ListedItems(row)
    /\ r.violation_count = Get(row, "violations", 0)

\* Rows of the table that carry the key of this upload.
KeyRows == MatchingRows(violation_master, image_key)

MissingText(row) == row.last_missing.s

HasText(row) == "last_missing" \in DOMAIN row /\ row.last_missing.t = "str"

\* C3 as claimed: a matched row whose last_missing is not empty gives status
\* Non-Compliant and a per-image count equal to the number of comma-separated
\* entries of last_missing.
C3_Original ==
    (pc = "done" /\ result # None /\ HasText(vio) /\ MissingText(vio) # << >>)
    => /\ result.status = "Non-Compliant"
       /\ total_violations(result) = Len(split(MissingText(vio)))

\* C3 amended: a matched row whose last_missing text holds at least one entry
\* that is not blank gives status Non-Compliant, and the per-image count is the
\* number of entries that are not blank (entries of commas and spaces only are
\* dropped; a text of nothing else gives the empty list and Compliant).
C3_NonCompliantCountsEntries ==
    (pc = "done" /\ result # None /\ HasText(vio))
    => /\ total_violations(result) = Cardinality(EntryStarts(MissingText(vio)))
       /\ (EntryStarts(MissingText(vio)) # {} => result.status = "Non-Compliant")
       /\ (MissingText(vio) # << >> /\ EntryStarts(MissingText(vio)) = {}
              => result.status = "Compliant")

\* C3 witness: a text with a blank entry between two items.
C3_Witness ==
    /\ pc = "done"
    /\ result # None
    /\ HasText(vio)
    /\ MissingText(vio) = << "a", ",", "a" >>
    /\ result.status = "Non-Compliant"
    /\ total_violations(result) = 2

\* C4: a matched row whose last_missing is the empty string or absent gives an
\* empty violations list and status Compliant.
C4_EmptyMissingIsCompliant ==
    (pc = "done" /\ error = NoText
        /\ ("last_missing" \notin DOMAIN vio \/ vio.last_missing = Str(<< >>)))
    => /\ result # None
       /\ result.violations = << >>
       /\ result.status = "Compliant"

\* C4 witness: the row has no last_missing attribute at all.
C4_Witness ==
    /\ pc = "done"
    /\ "last_missing" \notin DOMAIN vio
    /\ result # None
    /\ result.status = "Compliant"

\* C5 as claimed: on both pages a result is shown for an upload only from a
\* row whose last_image_key is the key of that upload, whatever the pipeline
\* writes meanwhile.
C5_Original ==
    (result # None /\ vio # None) => Get(vio, "last_image_key", None) = image_key

\* C6 as claimed: when several rows carry the uploaded key, the row the poll
\* returns is one with the latest last_updated, in whatever order the scan
\* lists them.
C6_Original ==
    (pc = "build" /\ vio # None) => \A r \in KeyRows : r.last_updated <= vio.last_updated

\* A scan or get_item of violation_master has just failed.
PollFailed == pc = "scan_resp" /\ "Error" \in DOMAIN resp

\* C7 as claimed: a failed query of violation_master ends the correlation in
\* that error: it is not read as "no row yet" and no further poll follows.
C7_Original ==
    [][(PollFailed /\ pc' # pc) =>
          /\ error' = resp.Error
          /\ pc' \in {"except", "done"}]_vars

\* The profile lookup has just failed for want of an answer of the store.
LookupUnreachable ==
    /\ pc \in {"profile_resp", "v_profile_resp"}
    /\ "Error" \in DOMAIN resp
    /\ resp.Error = "EndpointConnectionError"

\* C8: when a row was found and the employee_master lookup fails with a
\* connection error, the run ends in that error on both pages (Detect: the
\* handler's except branch; Violations: the exception ends the run): no
\* result is composed from an empty profile and no card is rendered.
C8_LookupFailureRaises ==
    /\ [][LookupUnreachable =>
            /\ error' = "EndpointConnectionError"
            /\ profile' = None
            /\ result' = None
            /\ pc' \in {"except", "done"}]_vars
    /\ [](error = "EndpointConnectionError" => result = None /\ "card" \notin shown)

\* C8 witness: on the Violations page a row was found and the lookup did not
\* reach the store: the run ended with the exception, without a card.
C8_Witness ==
    /\ pc = "done"
    /\ image_key = S3Key
    /\ vio # None
    /\ error = "EndpointConnectionError"
    /\ shown = {"exception"}

TextOrAbsent(row) == "last_missing" \notin DOMAIN row \/ row.last_missing.t = "str"

\* C9: a row was found and employee_master holds no item for its EmployeeID
\* (the lookup itself succeeded): build_display_result does not raise; the
\* result carries the row's status, items and cumulative count, the name falls
\* back to the employee id, department and site to the placeholder.  (Rows
\* whose last_missing is not a text are the case of C10.)
C9_MissingProfilePlaceholders ==
    (pc \in {"render", "done"} /\ vio # None /\ TextOrAbsent(vio)
        /\ employee_master[vio.EmployeeID] = None
        /\ error \notin {"ClientError", "EndpointConnectionError"})
    => /\ error = NoText
       /\ profile = EmptyDict
       /\ IsMatchedFor(result, vio)
       /\ result.name = vio.EmployeeID
       /\ result.department = Dash
       /\ result.site = Dash
       /\ result.image_key = image_key

\* C9 witness: emp01 has no profile and its row lists an item.
C9_Witness ==
    /\ pc = "done"
    /\ employee_master["emp01"] = None
    /\ profile = EmptyDict
    /\ result # None
    /\ result.name = "emp01"
    /\ result.status = "Non-Compliant"
    /\ result.violation_count = StaleViolations + 1

\* C10 as claimed: a row whose last_missing is not a text (a list, a number)
\* is treated as listing nothing: a result is returned, with an empty
\* violations list and status Compliant.
C10_Original ==
    (pc = "done" /\ vio # None /\ profile # None
        /\ "last_missing" \in DOMAIN vio /\ vio.last_missing.t \in {"list", "num"})
    => /\ result # None
       /\ result.violations = << >>
       /\ result.status = "Compliant"

\* The moment poll_violation_result was entered (deadline = start + POLL_SECONDS)
\* and the moment the placeholder was returned (its timestamp is taken then).
PollStarted == deadline - POLL_SECONDS

\* C11 as claimed: when no row with the key is ever present, the placeholder is
\* returned no earlier than POLL_SECONDS - POLL_INTERVAL and no later than
\* POLL_SECONDS plus the time of one scan after the poll started.
C11_Original ==
    (Returned /\ IsPending(result) /\ KeyRows = {})
    => /\ result.timestamp >= PollStarted + POLL_SECONDS - POLL_INTERVAL
       /\ result.timestamp <= PollStarted + POLL_SECONDS + MaxLatency

\* C11 amended: the placeholder is returned no earlier than POLL_SECONDS -
\* POLL_INTERVAL after the poll started (in fact not before the deadline) and
\* earlier than POLL_SECONDS plus the time of one scan plus POLL_INTERVAL after
\* it: the last scan may start just before the deadline and the sleep that
\* follows it is completed before the loop test is made again.
C11_PendingWithinBudgetPlusSleep ==
    (Returned /\ IsPending(result) /\ KeyRows = {})
    => /\ result.timestamp >= PollStarted + POLL_SECONDS - POLL_INTERVAL
       /\ result.timestamp >= deadline
       /\ result.timestamp < PollStarted + POLL_SECONDS + MaxLatency + POLL_INTERVAL

\* C11 witness: the placeholder returned at the latest moment, after a last
\* scan that started one second before the deadline.
C11_Witness ==
    /\ Returned
    /\ IsPending(result)
    /\ KeyRows = {}
    /\ result.timestamp = deadline + MaxLatency + POLL_INTERVAL - 1

\* The end of the polling budget of the page at work: the deadline of
\* poll_violation_result, or 25 sleeps of one second after start_iso.
BudgetEnd ==
    IF image_key = S3Key THEN start_iso + VIOL_POLLS * VIOL_SLEEP ELSE deadline

\* C12 as claimed: on both pages no query of violation_master is sent at or
\* after the end of the budget, whatever the queries' latencies.
C12_Original == pc = "scan_req" => timer < BudgetEnd

\* The state of the correlation of the Detect page, in the words of the state
\* machine: Polling while poll_violation_result runs, Matched from the moment
\* it returned a row, TimedOut when it returned None, InfraError when an
\* exception is on its way to the handler, Resolved / Failed at the end.
Phase ==
    CASE image_key = None -> "NotStarted"
      [] pc \in {"poll_start", "poll_check", "scan_req", "scan_resp", "sleep"} -> "Polling"
      [] pc = "build" /\ vio = None -> "TimedOut"
      [] pc \in {"build", "profile_req", "profile_resp", "compose"} /\ vio # None -> "Matched"
      [] pc = "except" -> "InfraError"
      [] pc \in {"render", "done"} /\ error # NoText -> "Failed"
      [] pc \in {"render", "done"} /\ error = NoText -> "Resolved"

\* The arrows of the state machine as claimed.
Arrows ==
    { << "NotStarted", "Polling" >>,
      << "Polling", "Matched" >>, << "Polling", "TimedOut" >>, << "Polling", "InfraError" >>,
      << "Matched", "Resolved" >>, << "TimedOut", "Resolved" >>, << "InfraError", "Failed" >> }

\* Polling stays Polling only while no row was returned, and a new scan is sent
\* only before the deadline.
PollingLoops ==
    (Phase = "Polling" /\ Phase' = "Polling")
    => /\ vio' = None
       /\ (pc = "poll_check" /\ pc' = "scan_req") => now < deadline

Ended == Phase \in {"Resolved", "Failed"}

\* C13 as claimed: the correlation moves along the arrows Polling -> {Matched ->
\* Resolved, TimedOut -> Resolved, InfraError -> Failed} only, Polling loops
\* only while nothing matched and the deadline has not passed, and every
\* correlation ends Resolved or Failed.
C13_Original ==
    /\ [][(Phase' # Phase => << Phase, Phase' >> \in Arrows) /\ PollingLoops]_vars
    /\ (Phase = "Polling") ~> Ended

\* C13 amended: as claimed, with one more arrow: Matched -> InfraError, taken
\* when the profile lookup or the composition of the result raises after a row
\* was found.
C13_StateMachineWithLateFailure ==
    /\ [][/\ Phase' # Phase =>
                << Phase, Phase' >> \in Arrows \cup { << "Matched", "InfraError" >> }
          /\ PollingLoops]_vars
    /\ [][Ended => Phase' = Phase]_vars
    /\ (Phase = "Polling") ~> Ended

\* C13 witness: a correlation that found a row and failed afterwards.
C13_Witness ==
    /\ Phase = "Failed"
    /\ vio # None
    /\ pc = "done"

\* C14: the correlation only reads: every step of the script run (every step
\* that is not a write of the detection pipeline) leaves violation_master and
\* employee_master as they are, whatever the outcome.
C14_CorrelationReadOnly ==
    [][writes' = writes => UNCHANGED << violation_master, employee_master >>]_vars

\* C14 witness: a matched result was shown for an employee without a profile;
\* the row is still the one read and no profile was created.
C14_Witness ==
    /\ pc = "done"
    /\ "card" \in shown
    /\ vio # None
    /\ vio.EmployeeID = "emp02"
    /\ violation_master["emp02"] = vio
    /\ employee_master["emp02"] = None
    /\ profile = EmptyDict

\* The poll has been entered: its deadline is set.
PollEntered == deadline # -1

\* C15: the poll of violation_master starts only after put_object for the key
\* has succeeded; when put_object fails (or the credentials are missing) no
\* poll is made and no result is produced.
C15_PollOnlyAfterUpload ==
    /\ (PollEntered \/ pc \in {"poll_start", "poll_check", "scan_req", "scan_resp", "sleep"})
          => image_key = ThisKey /\ "uploaded" \in shown
    /\ image_key = None
          => /\ ~PollEntered
             /\ resp = None /\ items = << >> /\ vio = None
             /\ result = None /\ "card" \notin shown

\* C15 witness: put_object failed; the failure was reported, nothing was polled.
C15_Witness ==
    /\ pc = "done"
    /\ image_key = None
    /\ error = "EndpointConnectionError"
    /\ shown = {"upload_failed", "caption"}
    /\ ~PollEntered

\* The results a session running alone can obtain for key on the tables as
\* they are: the placeholder when no row carries the key, else the matched
\* result of a row that carries it.
IsSoloResult(r, key) ==
    IF MatchingRows(violation_master, key) = {}
    THEN IsPending(r) /\ r.image_key = key
    ELSE r \in {MatchedResult(v, ProfileOf(v), key, 0) :
                   v \in MatchingRows(violation_master, key)}

\* C16: two sessions correlating different keys on the same tables, in any
\* interleaving: each one's result is a result it could obtain alone, no step of
\* one changes a variable of the other, and neither changes the tables.
C16_SessionsIndependent ==
    /\ []((pc = "done" /\ error = NoText) => IsSoloResult(result, image_key))
    /\ []((peer.pc = "done" /\ peer.result # None) => IsSoloResult(peer.result, peer.image_key))
    /\ [][/\ peer' # peer => UNCHANGED Mine
          /\ Mine' # Mine => peer' = peer
          /\ UNCHANGED Shared]_vars

\* C16 witness: both sessions have finished, each with the matched result of
\* the row of its own upload.
C16_Witness ==
    /\ pc = "done" /\ error = NoText
    /\ peer.pc = "done" /\ peer.result # None
    /\ result.image_key = ThisKey /\ result.employee_id = "emp01"
    /\ peer.result.image_key = OtherKey /\ peer.result.employee_id = "emp02"
    /\ peer.deadline <= deadline + 1

\* Attributes of an item other than violations.
Others(item) == (DOMAIN item) \ {"violations"}

\* C17: an update sent by update_employee_violations or upsert_employee changes
\* only the violations attribute of the item it addresses: the item's other
\* attributes and all other items stay, an item that did not exist is created
\* with the key and the count, and no other step changes employee_master.
C17_OnlyViolationsChanges ==
    [][LET old == employee_master[resp.Key]
           new == employee_master'[resp.Key]
       IN  IF pc = "update_req" /\ error' = NoText
           THEN /\ \A e \in Employees \ {resp.Key} : employee_master'[e] = employee_master[e]
                /\ new # None
                /\ new.violations = resp.Value
                /\ new.EmployeeID = resp.Key
                /\ old # None => /\ Others(new) = Others(old)
                                 /\ \A a \in Others(old) : new[a] = old[a]
                /\ old = None => Others(new) = {"EmployeeID"}
           ELSE UNCHANGED employee_master]_vars

\* C17 witness: emp01's count was set and its profile kept, emp02 was created
\* by an upsert.
C17_Witness ==
    /\ pc = "data_idle"
    /\ employee_master["emp01"] =
         WithViolations(Profile("emp01", "Ann", "photos/emp01.jpg"), MaxViolations)
    /\ employee_master["emp02"] = [EmployeeID |-> "emp02", violations |-> 0]

\* C18 as claimed: whenever a row with the key is in the table when a poll
\* scans it, the poll's answer contains it, however many pages the table spans.
C18_Original ==
    (pc = "scan_resp" /\ "Items" \in DOMAIN resp /\ KeyRows # {}) => resp.Items # << >>

\* C19 as claimed: when none of the 25 polls of the Violations page found a row
\* that passes the acceptance test, the page shows the "No detection record
\* yet" warning and no result card, also when the hinted employee has an older
\* row.
C19_Original ==
    (pc = "done" /\ image_key = S3Key /\ error = NoText
        /\ attempt = VIOL_POLLS /\ ~Accepts(vio, image_key, start_iso))
    => "warning" \in shown /\ "card" \notin shown

\* C20 as claimed: once the user has navigated away during the sleep between
\* two polls, polling stops: no further scan of violation_master is sent for
\* the upload.
C20_Original ==
    [][stop_requested => ~(pc # "scan_req" /\ pc' = "scan_req")]_vars

(***************************************************************************)
(* Violations page: the violations editor and "Save changes",              *)
(* pages/03_Violations.py lines 318-353.                                   *)
(***************************************************************************)
\* A cell of the violations column the user emptied: the column is not
\* "required", so st.data_editor hands back None / NaN for it.  It is written
\* -1 here, a value min_value=0 keeps every typed number away from.
Blank == -1

\* The Detect page and the pipeline at rest.
DetectIdle ==
    /\ now = 1
    /\ writes = 0
    /\ violation_master = [e \in Employees |-> None]
    /\ image_key = None
    /\ deadline = -1
    /\ timer = -1
    /\ resp = None
    /\ items = << >>
    /\ vio = None
    /\ profile = None
    /\ result = None
    /\ error = NoText
    /\ shown = {}
    /\ hinted_emp = NoText
    /\ start_iso = -1
    /\ attempt = 0
    /\ stop_requested = FALSE
    /\ peer = Idle

\* The variables only the Detect page, the pipeline and the clock change.
DetectVars ==
    << now, violation_master, writes, image_key, deadline, timer, resp, items, vio,
       profile, result, hinted_emp, start_iso, attempt, stop_requested, peer >>

\* The frames the page can show: rows of distinct employees in EmployeeID order
\* (lines 304-316), each with the count that was loaded.
Views ==
    {<< >>}
    \cup {<< [EmployeeID |-> e, violations |-> v] >> :
             e \in Employees, v \in 0..MaxViolations}
    \cup {<< [EmployeeID |-> "emp01", violations |-> v],
              [EmployeeID |-> "emp02", violations |-> w] >> :
             v \in 0..MaxViolations, w \in 0..MaxViolations}

\* lines 338-343: the rows whose count differs, as (EmployeeID, new value)
RECURSIVE Diffs(_, _, _)
Diffs(view, edited, i) ==
    IF i > Len(view) THEN << >>
    ELSE IF view[i].violations # edited[i]
         THEN << << view[i].EmployeeID, edited[i] >> >> \o Diffs(view, edited, i + 1)
         ELSE Diffs(view, edited, i + 1)

\* line 336 to 344: the click on "Save changes"; int() of line 341 raises on an
\* emptied cell
SaveChanges ==
    /\ pc = "editor"
    /\ IF \E i \in 1..Len(local.view) : local.edited[i] = Blank
       THEN /\ Uncaught("ValueError")
            /\ UNCHANGED local
       ELSE LET diffs == Diffs(local.view, local.edited, 1) IN
            IF diffs = << >>
            THEN /\ shown' = {"no_changes"}
                 /\ pc' = "done"
                 /\ UNCHANGED << local, error >>
            ELSE /\ local' = [local EXCEPT !.diffs = diffs]
                 /\ pc' = "save_loop"
                 /\ UNCHANGED << shown, error >>
    /\ UNCHANGED << employee_master, cache, calls >>
    /\ UNCHANGED << DetectVars, session_state, query_params, runs, s3_objects >>

\* lines 345-349: one pass of "for emp_id, new_val in diffs"
SaveRow ==
    /\ pc = "save_loop"
    /\ local.diffs # << >>
    /\ LET d == Head(local.diffs) IN
         /\ calls' = Append(calls, [Op |-> "update_employee_violations",
                                    Key |-> d[1], Value |-> d[2]])
         /\ \E out \in CallOutcomes :
              IF out = "ok"
              THEN /\ employee_master' = update_item(employee_master, d[1], d[2])
                   /\ UNCHANGED shown
              ELSE /\ shown' = shown \cup {"failed_to_update"}
                   /\ UNCHANGED employee_master
    /\ local' = [local EXCEPT !.diffs = Tail(local.diffs)]
    /\ UNCHANGED << pc, error, cache >>
    /\ UNCHANGED << DetectVars, session_state, query_params, runs, s3_objects >>

\* lines 350-353: the success message, the cache is dropped, the page reruns
SaveDone ==
    /\ pc = "save_loop"
    /\ local.diffs = << >>
    /\ shown' = shown \cup {"updated"}
    /\ cache' = None
    /\ pc' = "done"
    /\ UNCHANGED << employee_master, local, calls, error >>
    /\ UNCHANGED << DetectVars, session_state, query_params, runs, s3_objects >>

\* The editor is on the screen: a frame was loaded up to 30 s ago, the user
\* has typed into some cells, and the table may have moved on since the load.
InitSave ==
    /\ DetectIdle
    /\ employee_master \in DataTables
    /\ pc = "editor"
    /\ session_state = EmptyDict
    /\ query_params = EmptyDict
    /\ runs = None
    /\ calls = << >>
    /\ s3_objects = {}
    /\ \E view \in Views :
         /\ cache = [value |-> view]
         /\ \E edited \in [1..Len(view) -> (0..MaxViolations) \cup {Blank}] :
              local = [view |-> view, edited |-> edited, diffs |-> << >>]

NextSave == SaveChanges \/ SaveRow \/ SaveDone

SpecSave == InitSave /\ [][NextSave]_vars

\* The rows of the editor whose value is not the one that was loaded.
Changed == {i \in 1..Len(local.view) : local.edited[i] # local.view[i].violations}

Written == {<< calls[n].Key, calls[n].Value >> : n \in 1..Len(calls)}

\* C21 as claimed: when "Save changes" has run, update_employee_violations was
\* called exactly for the rows whose edited value differs from the loaded one,
\* once each, with the new value and the row's EmployeeID; nothing else was
\* written.
C21_Original ==
    (pc = "done" /\ local # None /\ "view" \in DOMAIN local)
    => /\ Written = {<< local.view[i].EmployeeID, local.edited[i] >> : i \in Changed}
       /\ Len(calls) = Cardinality(Changed)

\* What holds of the handler: when no cell is empty the calls are exactly the
\* changed rows, and when some cell is empty the run ends with the exception
\* of int() and nothing is written.
C21_WritesUnlessBlank ==
    (pc = "done" /\ local # None /\ "view" \in DOMAIN local)
    => IF \E i \in 1..Len(local.view) : local.edited[i] = Blank
       THEN calls = << >> /\ error = "ValueError"
       ELSE /\ Written = {<< local.view[i].EmployeeID, local.edited[i] >> : i \in Changed}
            /\ Len(calls) = Cardinality(Changed)

(***************************************************************************)
(* Employees page: _next_employee_id, pages/02_Employees_Master_List.py    *)
(* lines 253-270.  Identifiers are sequences of one-character strings;     *)
(* "sup2" stands for the one character SUPERSCRIPT TWO.                    *)
(***************************************************************************)
MaxItems == 3   \* items in a scan of employee_master

DecimalDigits == << "0", "1", "2", "3", "4", "5", "6", "7", "8", "9" >>

IsDecimal(c) == \E d \in 1..10 : DecimalDigits[d] = c

\* str.lower()
lower(s) ==
    [i \in 1..Len(s) |-> CASE s[i] = "E" -> "e" [] s[i] = "M" -> "m"
                           [] s[i] = "P" -> "p" [] OTHER -> s[i]]

\* str.isdigit(): a non-empty string of characters with the Unicode property
\* Digit, which the superscript digits have as well as the decimal ones.
isdigit(s) == Len(s) > 0 /\ \A i \in 1..Len(s) : IsDecimal(s[i]) \/ s[i] = "sup2"

\* int(s) raises ValueError unless s is made of decimal digits
IntRaisesOn(s) == \E i \in 1..Len(s) : ~IsDecimal(s[i])

RECURSIVE int(_)
int(s) ==
    IF s = << >> THEN 0
    ELSE 10 * int(SubSeq(s, 1, Len(s) - 1))
         + (CHOOSE d \in 0..9 : DecimalDigits[d + 1] = s[Len(s)])

RECURSIVE str(_)
str(n) == IF n < 10 THEN << DecimalDigits[n + 1] >>
          ELSE str(n \div 10) \o << DecimalDigits[(n % 10) + 1] >>

RECURSIVE zfill(_, _)
zfill(s, width) == IF Len(s) >= width THEN s ELSE zfill(<< "0" >> \o s, width)

Emp == << "e", "m", "p" >>

\* lines 260-266: the loop over the scanned items; -1 when int() raised
RECURSIVE MaxN(_, _, _, _)
MaxN(its, prefix, i, max_n) ==
    IF i > Len(its) THEN max_n
    ELSE LET eid == lower(Get(its[i], "EmployeeID", << >>))
             num == SubSeq(eid, Len(prefix) + 1, Len(eid))
         IN  IF Len(eid) >= Len(prefix) /\ SubSeq(eid, 1, Len(prefix)) = prefix
                /\ isdigit(num)
             THEN IF IntRaisesOn(num) THEN -1
                  ELSE MaxN(its, prefix, i + 1, IF int(num) > max_n THEN int(num) ELSE max_n)
             ELSE MaxN(its, prefix, i + 1, max_n)

\* lines 254-270; None when the function raised
_next_employee_id(its, prefix, min_width) ==
    LET max_n == MaxN(its, prefix, 1, 0)
        next_n == max_n + 1
        width == IF min_width > Len(str(next_n)) THEN min_width ELSE Len(str(next_n))
    IN  IF max_n < 0 THEN None ELSE prefix \o zfill(str(next_n), width)

\* Identifiers a scan of employee_master can hold: written by this page, typed
\* into the Violations page's "Add / Upsert" form, or put there by other tools.
ScannedItems ==
    {[EmployeeID |-> e] : e \in
    { Emp \o << "0", "1" >>, << "E", "M", "P", "0", "2" >>, Emp \o << "9" >>,
      Emp \o << "9", "9" >>, Emp \o << "0", "0", "7" >>, Emp,
      Emp \o << "x", "1" >>, << "x", "7" >>, Emp \o << "sup2" >> }}
    \cup {EmptyDict}

\* line 302: the call, with the scan it read
CallNextEmployeeId ==
    /\ pc = "next_id"
    /\ LET id == _next_employee_id(local.items, local.prefix, local.min_width) IN
         IF id = None
         THEN Uncaught("ValueError") /\ UNCHANGED local
         ELSE /\ local' = [local EXCEPT !.employee_id = id]
              /\ pc' = "done"
              /\ UNCHANGED << error, shown >>
    /\ UNCHANGED << DetectVars, employee_master, session_state, query_params, cache,
                    runs, calls, s3_objects >>

InitNextId ==
    /\ DetectIdle
    /\ employee_master = [e \in Employees |-> None]
    /\ pc = "next_id"
    /\ session_state = EmptyDict
    /\ query_params = EmptyDict
    /\ cache = None
    /\ runs = None
    /\ calls = << >>
    /\ s3_objects = {}
    /\ \E its \in UNION {[1..n -> ScannedItems] : n \in 0..MaxItems} :
         local = [items |-> its, prefix |-> Emp, min_width |-> 2, employee_id |-> << >>]

SpecNextId == InitNextId /\ [][CallNextEmployeeId]_vars

\* The scanned identifiers of the form prefix + decimal digits, compared
\* without case, and the largest of their numbers (0 when there is none).
HasForm(e, prefix) ==
    /\ Len(e) > Len(prefix)
    /\ SubSeq(e, 1, Len(prefix)) = prefix
    /\ \A i \in (Len(prefix) + 1)..Len(e) : IsDecimal(e[i])

NumbersOf(its, prefix) ==
    {int(SubSeq(lower(its[i].EmployeeID), Len(prefix) + 1, Len(its[i].EmployeeID))) :
        i \in {j \in 1..Len(its) : /\ "EmployeeID" \in DOMAIN its[j]
                                   /\ HasForm(lower(its[j].EmployeeID), prefix)}}

Largest(S) == IF S = {} THEN 0 ELSE CHOOSE n \in S : \A m \in S : m <= n

ExpectedId(its, prefix, min_width) ==
    LET n == Largest(NumbersOf(its, prefix)) + 1
    IN  prefix \o zfill(str(n), IF min_width > Len(str(n)) THEN min_width ELSE Len(str(n)))

\* C23 as claimed: _next_employee_id returns prefix + (N+1), N the largest
\* number among the scanned identifiers of the form prefix + digits (compared
\* without case, 0 when there is none), zero-padded to at least min_width;
\* identifiers of any other form are ignored.
C23_Original ==
    (pc = "done" /\ local # None /\ "prefix" \in DOMAIN local)
    => /\ error = NoText
       /\ local.employee_id = ExpectedId(local.items, local.prefix, local.min_width)

\* What holds of the function: it returns that identifier unless the scan holds
\* an identifier made of the prefix and characters str.isdigit accepts and
\* int() rejects; then it raises ValueError.
C23_UnlessNonDecimalDigit ==
    (pc = "done" /\ local # None /\ "prefix" \in DOMAIN local)
    => IF \E i \in 1..Len(local.items) :
             /\ "EmployeeID" \in DOMAIN local.items[i]
             /\ lower(local.items[i].EmployeeID) = Emp \o << "sup2" >>
       THEN error = "ValueError"
       ELSE /\ error = NoText
            /\ local.employee_id = ExpectedId(local.items, local.prefix, local.min_width)

(***************************************************************************)
(* Employees page: "Register new employee", lines 218-251 and 272-346, in  *)
(* two browser sessions.  Here employee_master is a dict from the          *)
(* identifiers present to their items; st.cache_data keeps one entry of    *)
(* _scan_employee_master for all sessions.                                 *)
(***************************************************************************)
Sessions == {"s1", "s2"}

RECURSIVE SeqOf(_)
SeqOf(S) == IF S = {} THEN << >>
            ELSE LET x == CHOOSE y \in S : TRUE IN << x >> \o SeqOf(S \ {x})

\* lines 83-103: the items of the table
ScanMaster(tbl) == SeqOf({tbl[k] : k \in DOMAIN tbl})

\* lines 219-222: the key of the photo
PhotoKey(employee_id, filename_ext) ==
    [prefix |-> "employees", id |-> employee_id,
     ext |-> CASE filename_ext = "" -> ".jpg"
               [] filename_ext = ".PNG" -> ".png"
               [] filename_ext \in {".jpg", ".jpeg", ".png", ".webp"} -> filename_ext
               [] OTHER -> ".jpg"]

\* tbl.put_item(Item=item): the item replaces whatever the key held
put_item(tbl, item) ==
    [k \in DOMAIN tbl \cup {item.EmployeeID} |->
        IF k = item.EmployeeID THEN item ELSE tbl[k]]

\* lines 139 and 293-303: the run that follows the click on "Create employee"
Submit(s) ==
    /\ runs[s].pc = "form"
    /\ \E full_name \in {<< "a" >>, << " " >>, << >>}, photo \in {None, Str(".PNG"), Str(".jpg")} :
         \E scan \in CallOutcomes :
           IF cache = None /\ scan # "ok"
           THEN /\ runs' = [runs EXCEPT ![s].pc = "done", ![s].error = scan]
                /\ UNCHANGED cache
           ELSE LET its == IF cache = None THEN ScanMaster(employee_master) ELSE cache.value
                IN  /\ cache' = [value |-> its]
                    /\ runs' = [runs EXCEPT ![s] =
                         IF strip(full_name) = << >> \/ photo = None
                         THEN [@ EXCEPT !.pc = "stopped", !.full_name = full_name,
                                        !.photo = photo]
                         ELSE [@ EXCEPT !.pc = "upload", !.full_name = full_name,
                                        !.photo = photo,
                                        !.employee_id = _next_employee_id(its, Emp, 2)]]
    /\ UNCHANGED << employee_master, calls, s3_objects >>
    /\ UNCHANGED << DetectVars, pc, error, shown, session_state, query_params, local >>

\* Variant: a failed upload is ignored and the profile is saved with the key.
Upload_SaveAnyway(s) ==
    /\ runs[s].pc = "upload"
    /\ \E put \in CallOutcomes :
         LET key == PhotoKey(runs[s].employee_id, runs[s].photo.s) IN
         /\ runs' = [runs EXCEPT ![s].pc = "save", ![s].photo_key = key, ![s].put = put]
         /\ s3_objects' = IF put = "ok" THEN s3_objects \cup {key} ELSE s3_objects
    /\ UNCHANGED << employee_master, cache, calls >>
    /\ UNCHANGED << DetectVars, pc, error, shown, session_state, query_params, local >>

\* lines 305-307 and 345-346: _put_photo_to_s3 returns the key or raises
Upload(s) ==
    /\ runs[s].pc = "upload"
    /\ \E put \in CallOutcomes :
         LET key == PhotoKey(runs[s].employee_id, runs[s].photo.s) IN
         IF put = "ok"
         THEN /\ s3_objects' = s3_objects \cup {key}
              /\ runs' = [runs EXCEPT ![s].pc = "save", ![s].photo_key = key, ![s].put = put]
         ELSE /\ runs' = [runs EXCEPT ![s].pc = "done", ![s].error = put, ![s].put = put]
              /\ UNCHANGED s3_objects
    /\ UNCHANGED << employee_master, cache, calls >>
    /\ UNCHANGED << DetectVars, pc, error, shown, session_state, query_params, local >>

\* lines 309-320 and 345-346: _upsert_employee_profile_to_master
SaveProfile(s) ==
    /\ runs[s].pc = "save"
    /\ \E put \in CallOutcomes :
         IF put = "ok"
         THEN LET item == [EmployeeID |-> runs[s].employee_id,
                           name |-> runs[s].full_name,
                           photo_key |-> runs[s].photo_key,
                           status |-> "Active"]
              IN  /\ employee_master' = put_item(employee_master, item)
                  /\ calls' = Append(calls,
                        [Op |-> "put_item", Item |-> item, By |-> s,
                         Existed |-> item.EmployeeID \in DOMAIN employee_master])
                  /\ runs' = [runs EXCEPT ![s].pc = "saved"]
         ELSE /\ runs' = [runs EXCEPT ![s].pc = "done", ![s].error = put]
              /\ UNCHANGED << employee_master, calls >>
    /\ UNCHANGED << cache, s3_objects >>
    /\ UNCHANGED << DetectVars, pc, error, shown, session_state, query_params, local >>

\* lines 322-344: the success panel, the cache entry is dropped, the page reruns
Finish(s) ==
    /\ runs[s].pc = "saved"
    /\ cache' = None
    /\ runs' = [runs EXCEPT ![s].pc = "done"]
    /\ UNCHANGED << employee_master, calls, s3_objects >>
    /\ UNCHANGED << DetectVars, pc, error, shown, session_state, query_params, local >>

\* line 80: ttl=30, the entry expires
CacheExpire ==
    /\ cache # None
    /\ cache' = None
    /\ UNCHANGED << employee_master, runs, calls, s3_objects >>
    /\ UNCHANGED << DetectVars, pc, error, shown, session_state, query_params, local >>

InitRegister ==
    /\ DetectIdle
    /\ pc = "form"
    /\ session_state = EmptyDict
    /\ query_params = EmptyDict
    /\ local = None
    /\ calls = << >>
    /\ s3_objects = {}
    /\ \E present \in SUBSET {Emp \o << "0", "1" >>} :
         /\ employee_master = [k \in present |->
                [EmployeeID |-> k, name |-> << "b" >>,
                 photo_key |-> PhotoKey(k, ".jpg"), status |-> "Active"]]
         /\ cache \in {None, [value |-> ScanMaster(employee_master)]}
    /\ runs = [s \in Sessions |->
                 [pc |-> "form", full_name |-> << >>, photo |-> None,
                  employee_id |-> << >>, photo_key |-> None, put |-> NoText,
                  error |-> NoText]]

NextRegister ==
    \/ \E s \in Sessions : Submit(s) \/ Upload(s) \/ SaveProfile(s) \/ Finish(s)
    \/ CacheExpire

SpecRegister == InitRegister /\ [][NextRegister]_vars

\* C22 as claimed: a registration never overwrites an existing profile (the
\* identifier it writes is not the key of an item already in employee_master)
\* and two registrations never receive the same EmployeeID.
C22_Original ==
    /\ \A n \in 1..Len(calls) : ~calls[n].Existed
    /\ \A s, t \in Sessions :
         (s # t /\ runs[s].employee_id # << >> /\ runs[t].employee_id # << >>)
         => runs[s].employee_id # runs[t].employee_id

\* C24: a profile item is written only after the photo upload of the same
\* registration succeeded, and its photo_key is the key of that object; a
\* submission with a blank name, without a photo, or whose upload failed
\* writes no item.
C24_ProfileOnlyAfterUpload ==
    /\ \A n \in 1..Len(calls) :
         LET r == runs[calls[n].By] IN
         /\ r.put = "ok"
         /\ calls[n].Item.photo_key = PhotoKey(calls[n].Item.EmployeeID, r.photo.s)
         /\ calls[n].Item.photo_key \in s3_objects
    /\ \A s \in Sessions :
         (runs[s].pc # "form"
            /\ (strip(runs[s].full_name) = << >> \/ runs[s].photo = None
                  \/ runs[s].put \notin {"ok", NoText}))
         => /\ \A n \in 1..Len(calls) : calls[n].By # s
            /\ runs[s].pc \in {"stopped", "done"}

C24_Witness ==
    /\ runs # None
    /\ \E s, t \in Sessions :
         /\ runs[s].pc = "done" /\ \E n \in 1..Len(calls) : calls[n].By = s
         /\ runs[t].pc = "done" /\ runs[t].put = "ClientError"

(***************************************************************************)
(* utils/data.py: load_employees_from_dynamodb, lines 34-79.               *)
(***************************************************************************)
MaxRows == 2   \* items in employee_master when it is loaded

\* lines 34-40: Decimal and anything int() takes give the number, the rest 0
_as_int(v) ==
    CASE v = None -> 0
      [] v.t = "num" -> v.v
      [] v = Str("2") -> 2
      [] OTHER -> 0

\* line 66: it.get("EmployeeID") or it.get("employee_id")
EmpIdOf(it) ==
    IF Get(it, "EmployeeID", "") # "" THEN it.EmployeeID ELSE Get(it, "employee_id", "")

\* Variant: .drop_duplicates(subset=["EmployeeID"], keep="first")
drop_duplicates_First(rows) ==
    SelectSeq([i \in 1..Len(rows) |-> [row |-> rows[i], i |-> i]],
              LAMBDA r : \A j \in 1..(r.i - 1) : rows[j].EmployeeID # r.row.EmployeeID)

\* lines 75-78: .drop_duplicates(subset=["EmployeeID"], keep="last")
drop_duplicates(rows) ==
    SelectSeq([i \in 1..Len(rows) |-> [row |-> rows[i], i |-> i]],
              LAMBDA r : \A j \in (r.i + 1)..Len(rows) : rows[j].EmployeeID # r.row.EmployeeID)

\* lines 64-79: the frame built from the scanned items
FrameOf(its) ==
    LET kept == SelectSeq(its, LAMBDA it : EmpIdOf(it) # "")
        rows == [i \in 1..Len(kept) |->
                   [EmployeeID |-> EmpIdOf(kept[i]),
                    violations |-> _as_int(Get(kept[i], "violations", NumVal(0)))]]
        last == drop_duplicates(rows)
    IN  [columns |-> << "EmployeeID", "violations" >>,
         rows |-> [i \in 1..Len(last) |-> last[i].row]]

\* Items a scan of employee_master can return.
LoadItems ==
    {[a \in ks |-> CASE a = "EmployeeID" -> e [] a = "employee_id" -> "emp02"
                     [] a = "violations" -> v] :
        ks \in SUBSET {"EmployeeID", "employee_id", "violations"},
        e \in {"", "emp01", "emp02"},
        v \in {None, NumVal(1), Str("2"), Str("x")}}

\* lines 56-62: one tbl.scan; the page ends where DynamoDB ends it, and a
\* LastEvaluatedKey comes with it while items are left
LoadScan ==
    /\ pc = "load_scan"
    /\ \E out \in CallOutcomes :
         IF out # "ok"
         THEN Uncaught(out) /\ UNCHANGED local
         ELSE \E n \in 0..Len(local.table) :
                /\ n > 0 \/ local.table = << >>
                /\ local' = [local EXCEPT
                       !.items = @ \o SubSeq(local.table, 1, n),
                       !.table = SubSeq(local.table, n + 1, Len(local.table))]
                /\ pc' = IF n < Len(local.table) THEN "load_scan" ELSE "load_rows"
                /\ UNCHANGED << error, shown >>
    /\ UNCHANGED << DetectVars, employee_master, session_state, query_params, cache,
                    runs, calls, s3_objects >>

\* lines 64-79
LoadRows ==
    /\ pc = "load_rows"
    /\ local' = [local EXCEPT !.df = FrameOf(local.items)]
    /\ pc' = "done"
    /\ UNCHANGED << error, shown >>
    /\ UNCHANGED << DetectVars, employee_master, session_state, query_params, cache,
                    runs, calls, s3_objects >>

InitLoad ==
    /\ DetectIdle
    /\ employee_master = [e \in Employees |-> None]
    /\ pc = "load_scan"
    /\ session_state = EmptyDict
    /\ query_params = EmptyDict
    /\ cache = None
    /\ runs = None
    /\ calls = << >>
    /\ s3_objects = {}
    /\ \E its \in UNION {[1..n -> LoadItems] : n \in 0..MaxRows} :
         local = [all |-> its, table |-> its, items |-> << >>, df |-> None]

NextLoad == LoadScan \/ LoadRows

SpecLoad == InitLoad /\ [][NextLoad]_vars

\* The identifier under which an item counts, "" when it has none.
IdIn(it) ==
    IF "EmployeeID" \in DOMAIN it /\ it.EmployeeID # "" THEN it.EmployeeID
    ELSE IF "employee_id" \in DOMAIN it THEN it.employee_id ELSE ""

\* The count an item stands for: its number, 0 when it is missing or no number.
CountIn(it) ==
    IF "violations" \notin DOMAIN it THEN 0
    ELSE IF it.violations = NumVal(1) THEN 1
    ELSE IF it.violations = Str("2") THEN 2 ELSE 0

\* C25: load_employees_from_dynamodb returns one row per distinct EmployeeID of
\* the items of all pages: items without an identifier are skipped, a missing
\* or non-numeric violations value counts as 0, of several items with one
\* identifier the last one gives the row, and an empty table gives the empty
\* frame with the columns EmployeeID and violations.
C25_OneRowPerEmployee ==
    (pc = "done" /\ local # None /\ "df" \in DOMAIN local /\ error = NoText)
    => LET its == local.all
           rows == local.df.rows
           ids == {IdIn(its[i]) : i \in 1..Len(its)} \ {""}
       IN  /\ local.df.columns = << "EmployeeID", "violations" >>
           /\ {rows[i].EmployeeID : i \in 1..Len(rows)} = ids
           /\ Len(rows) = Cardinality(ids)
           /\ \A i \in 1..Len(rows) :
                LET last == CHOOSE j \in 1..Len(its) :
                              /\ IdIn(its[j]) = rows[i].EmployeeID
                              /\ \A k \in (j + 1)..Len(its) : IdIn(its[k]) # rows[i].EmployeeID
                IN  rows[i].violations = CountIn(its[last])

C25_Witness ==
    /\ pc = "done" /\ local # None /\ "df" \in DOMAIN local /\ error = NoText
    /\ Len(local.all) = 2 /\ Len(local.df.rows) = 1
    /\ IdIn(local.all[1]) = IdIn(local.all[2])
    /\ CountIn(local.all[1]) = 1 /\ "violations" \notin DOMAIN local.all[2]
    /\ local.df.rows[1].violations = 0

(***************************************************************************)
(* Login: auth.py, the Account page (pages/00_Account.py), Home.py and the *)
(* gate of the Detect page (pages/01_Detect_PPE_Upload.py lines 18-19),    *)
(* in one browser session.  A script run of the Account page or of Home is *)
(* one step; the Detect page's run goes on with the upload handler.        *)
(***************************************************************************)
\* lines 90-92
is_logged_in(ss) == "id_token" \in DOMAIN ss \/ Get(ss, "logged_in", FALSE)

\* Variant: the session is stored once the code exchange succeeded, before
\* the ID token is validated.
CompleteLogin_Unvalidated(ss, qp, exchange, validate) ==
    IF ~is_logged_in(ss) /\ "code" \in DOMAIN qp /\ qp.code # ""
    THEN IF exchange = "ok"
         THEN [id_token |-> "tok", user |-> "claims", logged_in |-> TRUE]
         ELSE None
    ELSE ss

\* lines 111-123: the session state after the OAuth callback was handled, None
\* when exchange_code_for_tokens or validate_id_token raised
CompleteLogin(ss, qp, exchange, validate) ==
    IF ~is_logged_in(ss) /\ "code" \in DOMAIN qp /\ qp.code # ""
    THEN IF exchange = "ok" /\ validate = "ok"
         THEN [id_token |-> "tok", user |-> "claims", logged_in |-> TRUE]
         ELSE None
    ELSE ss

\* Places where no script of the session is running and the user can act.
PageLevel == {"start", "stopped", "account", "login", "button", "done"}

\* pages/00_Account.py: ensure_logged_in() of line 64 (auth.py 97-156) and the
\* account content of lines 66-101
ensure_logged_in ==
    /\ pc \in PageLevel \cup {"rerun"}
    /\ \E qp \in IF pc = "rerun" THEN {query_params}
                 ELSE {EmptyDict, [code |-> ""], [code |-> "c"]},
          issues \in BOOLEAN, exchange \in {"ok", "HTTPError"},
          validate \in {"ok", "JWTError"} :
         LET ss == CompleteLogin(session_state, qp, exchange, validate) IN
         /\ local' = [was |-> is_logged_in(session_state), code |-> Get(qp, "code", ""),
                      issues |-> issues, exchange |-> exchange, validate |-> validate]
         /\ IF issues
            THEN /\ shown' = {"config_error"}
                 /\ pc' = "stopped"
                 /\ error' = NoText
                 /\ query_params' = qp
                 /\ UNCHANGED session_state
            ELSE IF ss = None
            THEN /\ Uncaught(IF exchange # "ok" THEN exchange ELSE validate)
                 /\ query_params' = qp
                 /\ UNCHANGED session_state
            ELSE /\ session_state' = ss
                 /\ query_params' = IF ss # session_state THEN EmptyDict ELSE qp
                 /\ error' = NoText
                 /\ IF is_logged_in(ss)
                    THEN shown' = {"account", "logout_button"} /\ pc' = "account"
                    ELSE shown' = {"login_button"} /\ pc' = "login"
    /\ UNCHANGED << DetectVars, employee_master, cache, runs, calls, s3_objects >>

\* auth.py lines 158-162: the click on "Log out"
logout_button ==
    /\ pc = "account"
    /\ "logout_button" \in shown
    /\ is_logged_in(session_state)
    /\ session_state' = EmptyDict
    /\ pc' = "rerun"
    /\ UNCHANGED << DetectVars, employee_master, error, shown, query_params, cache,
                    local, runs, calls, s3_objects >>

\* Home.py: line 7 imports complete_login_if_returned, which auth.py does not
\* define, so the run ends with ImportError before line 13 and lines 21-32
\* are never reached.
Home ==
    /\ pc \in PageLevel
    /\ \E qp \in {EmptyDict, [logout |-> "1"]} : query_params' = qp
    /\ Uncaught("ImportError")
    /\ UNCHANGED << DetectVars, employee_master, session_state, cache, local, runs,
                    calls, s3_objects >>

\* Variant: the gate lets every run through.
require_login_Open(Continue) == Continue

\* auth.py lines 164-179: the warning, the link and st.stop(), or nothing
require_login(Continue) ==
    IF ~is_logged_in(session_state)
    THEN /\ shown' = {"login_required"}
         /\ pc' = "stopped"
         /\ UNCHANGED << DetectVars, employee_master, error, Pages >>
    ELSE Continue

\* pages/01_Detect_PPE_Upload.py: a run that shows the upload form
OpenDetect ==
    /\ pc \in PageLevel
    /\ require_login(/\ pc' = "button"
                     /\ shown' = {}
                     /\ error' = NoText
                     /\ UNCHANGED << DetectVars, employee_master, Pages >>)

\* pages/01_Detect_PPE_Upload.py: the run that follows the click on "Upload to S3"
DetectClick ==
    /\ pc = "button"
    /\ image_key = None
    /\ require_login(ClickUpload)

InitAuth ==
    /\ now = 1
    /\ violation_master \in {t \in ScanTables :
                                /\ t["emp02"] = None
                                /\ t["emp01"] # None => t["emp01"].EmployeeID = "emp01"}
    /\ employee_master = Directory
    /\ writes = MaxWrites
    /\ pc = "start"
    /\ Locals

NextAuth ==
    \/ ensure_logged_in
    \/ logout_button
    \/ Home
    \/ OpenDetect
    \/ DetectClick
    \/ poll_violation_result
    \/ build_display_result
    \/ Except
    \/ Render
    \/ Tick

SpecAuth == InitAuth /\ [][NextAuth]_vars

\* Positions of the Detect page's script at or after the upload.
DetectWork ==
    {"poll_start", "poll_check", "scan_req", "scan_resp", "sleep", "build",
     "profile_req", "profile_resp", "compose", "except", "render"}

\* C26: while the session is not logged in, a run of the Detect page ends at
\* require_login: no step shows the upload form, uploads to S3, or sends a
\* scan of violation_master or a lookup in employee_master.
C26_DetectGated ==
    [][~is_logged_in(session_state)
         => /\ image_key' = image_key
            /\ resp' = resp
            /\ pc' \notin DetectWork
            /\ pc' = "button" => pc = "button"]_vars

C26_Witness ==
    /\ ~is_logged_in(session_state)
    /\ pc = "stopped"
    /\ shown = {"login_required"}
    /\ image_key = None

\* C27: ensure_logged_in stores the session only when the code exchange and
\* the validation of the ID token both succeeded; when one of them raised, or
\* when the request carried no code, the session state holds none of id_token,
\* user and logged_in after the run and the run showed no account content.
C27_LoginOnlyAfterValidation ==
    (/\ local # None /\ "was" \in DOMAIN local /\ ~local.was /\ ~local.issues
     /\ pc \in {"account", "login"} \/ (pc = "done" /\ error \in {"HTTPError", "JWTError"}))
    => IF local.code # "" /\ local.exchange = "ok" /\ local.validate = "ok"
       THEN /\ DOMAIN session_state = {"id_token", "user", "logged_in"}
            /\ session_state.logged_in
            /\ pc = "account"
       ELSE /\ DOMAIN session_state \cap {"id_token", "user", "logged_in"} = {}
            /\ "account" \notin shown

C27_Witness ==
    /\ local # None /\ "was" \in DOMAIN local /\ ~local.was
    /\ local.code = "c" /\ local.exchange = "ok" /\ local.validate = "JWTError"
    /\ pc = "done" /\ error = "JWTError"
    /\ session_state = EmptyDict

\* The three keys stand or fall together.
KeysConsistent ==
    /\ "id_token" \in DOMAIN session_state <=> "user" \in DOMAIN session_state
    /\ "id_token" \in DOMAIN session_state <=> Get(session_state, "logged_in", FALSE)

\* C28 as claimed: the session keys are consistent (id_token present iff
\* logged_in true iff user present), and after a logout, by the Log out button
\* or by a request with the ?logout query parameter, all three are absent and
\* is_logged_in is false.
C28_Original ==
    /\ KeysConsistent
    /\ pc = "rerun" => session_state = EmptyDict
    /\ (pc = "done" /\ error = "ImportError" /\ "logout" \in DOMAIN query_params)
       => ~is_logged_in(session_state)

\* What holds: the keys are consistent, the Log out button clears them, and
\* from then on the gate of the Detect page stops every run until
\* ensure_logged_in has stored a session again.
C28_ButtonLogout ==
    /\ KeysConsistent
    /\ pc = "rerun" => session_state = EmptyDict
    /\ (pc \in DetectWork \cup {"button"}) => is_logged_in(session_state)

====
